---- MODULE Spec2Model ----
(***************************************************************************)
(* Model of dagster_open_platform/resources/dlt_resource.py: the dlt       *)
(* resource-to-asset key translator, the DltDagsterResource.run generator  *)
(* and the load-info metadata casting / extraction helpers.                *)
(*                                                                         *)
(* Python values are tagged records: the field t names the Python type.    *)
(* A dict is [t |-> "dict", m |-> function from keys to values], a list is *)
(* [t |-> "list", s |-> sequence].                                          *)
(***************************************************************************)
EXTENDS Integers, Sequences, FiniteSets, TLC

VARIABLES
    pc,            \* position of the run generator / of the helper under study
    assets_def,    \* the AssetsDefinition built by dlt_assets: sequence of specs
    context,       \* the execution context handed to run
    dlt_source,    \* run's local dlt_source (narrowed on a subset run)
    dlt_pipeline,  \* run's local dlt_pipeline
    mapping,       \* run's local asset_key_dlt_source_resource_mapping
    load_info,     \* run's local load_info (the pipeline's report)
    idx,           \* number of pairs the final for loop has consumed
    yielded,       \* the records run has yielded so far, in order
    error,         \* the exception that ended the generator, if any
    run_calls,     \* the sources dlt_pipeline.run was called with, in order
    arg,           \* input of the pure function under study
    result         \* output of the pure function under study

vars == <<pc, assets_def, context, dlt_source, dlt_pipeline, mapping, load_info,
          idx, yielded, error, run_calls, arg, result>>

----------------------------------------------------------------------------
(* Bounds *)

MaxResources == 2   \* resources per dlt source
MaxPackages == 2    \* load packages per report
MaxJobs == 2        \* jobs per load package

----------------------------------------------------------------------------
(* Constants of the program and the universe of inputs *)

META_KEY_SOURCE == "dagster_dlt/source"
META_KEY_PIPELINE == "dagster_dlt/pipeline"

None == [t |-> "None"]

ResourceNames == {"alpha", "beta", "delta"}
SourceName == "src"

\* a DltResource: name, owning source's name, target table
DltResource(source_name, name, table_name) ==
    [t |-> "DltResource", source_name |-> source_name, name |-> name,
     table_name |-> table_name]

Range(s) == {s[i] : i \in DOMAIN s}

IsInjective(s) == \A i, j \in DOMAIN s : s[i] = s[j] => i = j

\* all sequences without repetition over S, of length at most n
InjectiveSeqs(S, n) ==
    {s \in UNION {[1..k -> S] : k \in 0..n} : IsInjective(s)}

\* DltSource.resources is a dict keyed by resource name: names are unique and
\* values() enumerates in insertion order.  table_name defaults to the name.
DltSources ==
    {[t |-> "DltSource", name |-> SourceName,
      resources |-> [i \in DOMAIN names |->
                        DltResource(SourceName, names[i], names[i])]] :
        names \in InjectiveSeqs(ResourceNames, MaxResources)}

\* a Pipeline object; raises says whether its run(...) raises
Pipelines == {[t |-> "Pipeline", raises |-> b] : b \in BOOLEAN}

----------------------------------------------------------------------------
(* DltDagsterTranslator *)

\* AssetKey(str) is the one-segment path [str]
AssetKey(str) == <<str>>

get_asset_key(resource) ==
    AssetKey("dlt_" \o resource.source_name \o "_" \o resource.name)

get_deps_asset_keys(resource) ==
    <<AssetKey(resource.source_name \o "_" \o resource.name)>>

get_auto_materialize_policy(resource) == None

----------------------------------------------------------------------------
(* Python values met in a load-info dict *)

PyStr(v) == [t |-> "str", v |-> v]
PyBool(v) == [t |-> "bool", v |-> v]
PyDict(m) == [t |-> "dict", m |-> m]
PyList(s) == [t |-> "list", s |-> s]
\* pendulum.DateTime and pendulum.Timezone, each with the text str() renders
DateTime(iso) == [t |-> "DateTime", iso |-> iso]
Timezone(name) == [t |-> "Timezone", name |-> name]

\* str(value) for the two pendulum types
str(value) ==
    IF value.t = "DateTime" THEN PyStr(value.iso) ELSE PyStr(value.name)

\* d.get(k, default) on the key -> value function of a dict
Get(m, k, default) == IF k \in DOMAIN m THEN m[k] ELSE default

RECURSIVE _recursive_cast(_)
_recursive_cast(value) ==
    IF value.t = "dict"
    THEN PyDict([k \in DOMAIN value.m |-> _recursive_cast(value.m[k])])
    ELSE IF value.t = "list"
    THEN PyList([i \in DOMAIN value.s |-> _recursive_cast(value.s[i])])
    ELSE IF value.t \in {"DateTime", "Timezone"}
    THEN str(value)
    ELSE value

RECURSIVE _recursive_cast_every_leaf(_)
\* a cast with the isinstance test on the pendulum types dropped: str() is
\* applied to every value that is neither a dict nor a list
_recursive_cast_every_leaf(value) ==
    IF value.t = "dict"
    THEN PyDict([k \in DOMAIN value.m |-> _recursive_cast_every_leaf(value.m[k])])
    ELSE IF value.t = "list"
    THEN PyList([i \in DOMAIN value.s |-> _recursive_cast_every_leaf(value.s[i])])
    ELSE IF value.t \in {"DateTime", "Timezone"} THEN str(value)
    ELSE IF value.t = "bool" THEN PyStr(IF value.v THEN "True" ELSE "False")
    ELSE IF value.t = "int" THEN PyStr(ToString(value.v))
    ELSE IF value.t = "None" THEN PyStr("None")
    ELSE value

_cast_every_leaf(m) ==
    [k \in DOMAIN m |-> _recursive_cast_every_leaf(m[k])]

\* a cast that converts top-level values only
_cast_top_level_only(m) ==
    [k \in DOMAIN m |->
        IF m[k].t \in {"DateTime", "Timezone"} THEN str(m[k]) ELSE m[k]]

\* mapping is the key -> value function of the top-level Mapping
_cast_load_info_metadata(m) ==
    [k \in DOMAIN m |-> _recursive_cast(m[k])]

dlt_base_metadata_types ==
    {"first_run", "started_at", "finished_at", "dataset_name",
     "destination_name", "destination_type"}

\* concatenation of a sequence of sequences, in order
RECURSIVE Concat(_)
Concat(ss) == IF ss = <<>> THEN <<>> ELSE Head(ss) \o Concat(Tail(ss))

\* LoadInfo.asdict(): the report as a plain mapping
asdict(info) == info.d

\* extraction that reads the jobs of the first load package only
extract_first_package_only(resource, info) ==
    LET load_info_dict == _cast_load_info_metadata(asdict(info))
        base_metadata ==
            [k \in DOMAIN load_info_dict \cap dlt_base_metadata_types |->
                load_info_dict[k]]
        packages == Get(load_info_dict, "load_packages", PyList(<<>>)).s
        Matches(job) ==
            Get(job.m, "table_name", None) = PyStr(resource.table_name)
        jobs ==
            IF packages = <<>> THEN <<>>
            ELSE SelectSeq(Get(packages[1].m, "jobs", PyList(<<>>)).s, Matches)
    IN  ("jobs" :> PyList(jobs)) @@ base_metadata

extract_resource_metadata(resource, info) ==
    LET load_info_dict == _cast_load_info_metadata(asdict(info))
        base_metadata ==
            [k \in DOMAIN load_info_dict \cap dlt_base_metadata_types |->
                load_info_dict[k]]
        packages == Get(load_info_dict, "load_packages", PyList(<<>>)).s
        Matches(job) ==
            Get(job.m, "table_name", None) = PyStr(resource.table_name)
        jobs ==
            Concat([p \in DOMAIN packages |->
                SelectSeq(Get(packages[p].m, "jobs", PyList(<<>>)).s, Matches)])
    IN  ("jobs" :> PyList(jobs)) @@ base_metadata

----------------------------------------------------------------------------
(* dlt_assets: the AssetsDefinition of a source *)

\* one AssetSpec per resource, in resources.values() order, each carrying the
\* source and the pipeline in its metadata
dlt_assets(source, pipeline) ==
    [i \in DOMAIN source.resources |->
        [key |-> get_asset_key(source.resources[i]),
         deps |-> get_deps_asset_keys(source.resources[i]),
         auto_materialize_policy |->
             get_auto_materialize_policy(source.resources[i]),
         metadata |-> (META_KEY_SOURCE :> source @@ META_KEY_PIPELINE :> pipeline)]]

\* a key no resource of the modelled sources derives (a resource "gamma")
ForeignKey == AssetKey("dlt_" \o SourceName \o "_gamma")

NoContext == [t |-> "None"]

----------------------------------------------------------------------------
(* DltDagsterResource.run *)

Min(a, b) == IF a <= b THEN a ELSE b

\* zip that stops one pair early
zip_short(a, b) == [i \in 1..(Min(Len(a), Len(b)) - 1) |-> <<a[i], b[i]>>]

\* zip(a, b): pairs by position, as long as the shorter argument
zip(a, b) == [i \in 1..Min(Len(a), Len(b)) |-> <<a[i], b[i]>>]

\* the check with the pipeline half forgotten
missing_refs_source_only(source, pipeline) == source = None

\* `not dlt_source or not dlt_pipeline`
missing_refs(source, pipeline) == source = None \/ pipeline = None

\* the list comprehension of the subset branch
filter_mapping(pairs, selected_asset_keys) ==
    LET Keep(pair) == pair[1] \in Range(selected_asset_keys)
    IN  SelectSeq(pairs, Keep)

\* narrowing that retains every resource
with_resources_all(source, names) == source

\* DltSource.with_resources(*names): a clone retaining the named resources
with_resources(source, names) ==
    LET Keep(resource) == resource.name \in Range(names)
    IN  [source EXCEPT !.resources = SelectSeq(source.resources, Keep)]

\* the names handed to with_resources
mapping_names(pairs) == [i \in DOMAIN pairs |-> pairs[i][2].name]

\* the report dlt_pipeline.run returns for the source it ran: one load package
\* with one job per resource of that source
LoadInfoFor(source) ==
    [t |-> "LoadInfo",
     d |-> [first_run |-> PyBool(TRUE),
            started_at |-> DateTime("2024-01-01T00:00:00+00:00"),
            dataset_name |-> PyStr("dataset"),
            pipeline |-> PyDict([pipeline_name |-> PyStr("p")]),
            load_packages |-> PyList(<<
                PyDict([load_id |-> PyStr("1"),
                        completed_at |-> DateTime("2024-01-01T00:01:00+00:00"),
                        jobs |-> PyList(
                            [i \in DOMAIN source.resources |->
                                PyDict([table_name |->
                                            PyStr(source.resources[i].table_name),
                                        created_at |->
                                            DateTime("2024-01-01T00:00:30+00:00")])])])
            >>)]]

\* a user decorates a function with @dlt_assets(dlt_source=..., dlt_pipeline=...)
define_assets ==
    /\ pc = "build"
    /\ \E source \in DltSources, pipeline \in Pipelines :
           assets_def' = dlt_assets(source, pipeline)
    /\ pc' = "defined"
    /\ UNCHANGED <<context, dlt_source, dlt_pipeline, mapping, load_info, idx,
                   yielded, error, run_calls, arg, result>>

\* the orchestrator builds the execution context of one run.  A full run selects
\* every key of the definition; a subset run selects any set of keys.  A set has
\* no order of its own: selected_asset_keys is the order its iteration takes.
\* absent: metadata keys the definition's specs do not carry.
schedule_run ==
    /\ pc = "defined"
    /\ \E is_subset \in BOOLEAN,
          kind \in {"AssetExecutionContext", "OpExecutionContext"},
          absent \in SUBSET {META_KEY_SOURCE, META_KEY_PIPELINE},
          selected \in InjectiveSeqs({assets_def[i].key : i \in DOMAIN assets_def}
                                      \cup {ForeignKey}, MaxResources + 1) :
           /\ ~is_subset =>
                  Range(selected) = {assets_def[i].key : i \in DOMAIN assets_def}
           /\ context' =
                  [t |-> kind,
                   is_subset |-> is_subset,
                   selected_asset_keys |-> selected,
                   metadata_by_key_values |->
                       [i \in DOMAIN assets_def |->
                           [k \in DOMAIN assets_def[i].metadata \ absent |->
                               assets_def[i].metadata[k]]]]
    /\ pc' = "start"
    /\ UNCHANGED <<assets_def, dlt_source, dlt_pipeline, mapping, load_info, idx,
                   yielded, error, run_calls, arg, result>>

\* lines 152-163: read the references from the first spec's metadata
run_resolve ==
    /\ pc = "start"
    /\ IF context.metadata_by_key_values = <<>>
       THEN \* next(iter(...)) of an empty mapping
            /\ error' = "StopIteration"
            /\ pc' = "raised"
            /\ UNCHANGED <<dlt_source, dlt_pipeline>>
       ELSE LET first_asset_metadata == context.metadata_by_key_values[1]
                source == Get(first_asset_metadata, META_KEY_SOURCE, None)
                pipeline == Get(first_asset_metadata, META_KEY_PIPELINE, None)
            IN  /\ dlt_source' = source
                /\ dlt_pipeline' = pipeline
                /\ IF missing_refs(source, pipeline)
                   THEN error' = "Exception" /\ pc' = "raised"
                   ELSE error' = error /\ pc' = "resolved"
    /\ UNCHANGED <<assets_def, context, mapping, load_info, idx, yielded,
                   run_calls, arg, result>>

\* lines 165-182: pair keys with resources, filter and narrow on a subset run
run_filter ==
    /\ pc = "resolved"
    /\ LET pairs == zip(context.selected_asset_keys, dlt_source.resources)
       IN  IF context.is_subset
           THEN LET kept == filter_mapping(pairs, context.selected_asset_keys)
                IN  /\ mapping' = kept
                    /\ dlt_source' = with_resources(dlt_source, mapping_names(kept))
           ELSE /\ mapping' = pairs
                /\ UNCHANGED dlt_source
    /\ pc' = "paired"
    /\ UNCHANGED <<assets_def, context, dlt_pipeline, load_info, idx, yielded,
                   error, run_calls, arg, result>>

\* the pipeline execution with its exception swallowed
run_pipeline_swallow ==
    /\ pc = "paired"
    /\ run_calls' = Append(run_calls, dlt_source)
    /\ load_info' = IF dlt_pipeline.raises
                    THEN [t |-> "LoadInfo", d |-> <<>>]
                    ELSE LoadInfoFor(dlt_source)
    /\ pc' = "loaded"
    /\ UNCHANGED <<assets_def, context, dlt_source, dlt_pipeline, mapping, idx,
                   yielded, error, arg, result>>

\* line 184: the one pipeline execution; its exception leaves the generator
run_pipeline ==
    /\ pc = "paired"
    /\ run_calls' = Append(run_calls, dlt_source)
    /\ IF dlt_pipeline.raises
       THEN /\ error' = "PipelineStepFailed"
            /\ pc' = "raised"
            /\ UNCHANGED load_info
       ELSE /\ load_info' = LoadInfoFor(dlt_source)
            /\ pc' = "loaded"
            /\ UNCHANGED error
    /\ UNCHANGED <<assets_def, context, dlt_source, dlt_pipeline, mapping, idx,
                   yielded, arg, result>>

\* lines 186-192: one iteration of the for loop
run_yield ==
    /\ pc = "loaded"
    /\ idx < Len(mapping)
    /\ LET asset_key == mapping[idx + 1][1]
           dlt_source_resource == mapping[idx + 1][2]
           metadata == extract_resource_metadata(dlt_source_resource, load_info)
       IN  yielded' = Append(yielded,
               [t |-> IF context.t = "AssetExecutionContext"
                      THEN "MaterializeResult" ELSE "AssetMaterialization",
                asset_key |-> asset_key,
                metadata |-> metadata])
    /\ idx' = idx + 1
    /\ UNCHANGED <<pc, assets_def, context, dlt_source, dlt_pipeline, mapping,
                   load_info, error, run_calls, arg, result>>

\* the for loop is exhausted: the generator returns
run_return ==
    /\ pc = "loaded"
    /\ idx = Len(mapping)
    /\ pc' = "done"
    /\ UNCHANGED <<assets_def, context, dlt_source, dlt_pipeline, mapping,
                   load_info, idx, yielded, error, run_calls, arg, result>>

Init ==
    /\ pc = "build"
    /\ assets_def = <<>>
    /\ context = NoContext
    /\ dlt_source = None
    /\ dlt_pipeline = None
    /\ mapping = <<>>
    /\ load_info = None
    /\ idx = 0
    /\ yielded = <<>>
    /\ error = "none"
    /\ run_calls = <<>>
    /\ arg = None
    /\ result = None

Next ==
    \/ define_assets
    \/ schedule_run
    \/ run_resolve
    \/ run_filter
    \/ run_pipeline
    \/ run_yield
    \/ run_return

Spec == Init /\ [][Next]_vars

----------------------------------------------------------------------------
(* Properties of DltDagsterResource.run *)

Scheduled == pc \in {"start", "resolved", "paired", "loaded", "done", "raised"}
Paired == pc \in {"paired", "loaded", "done"}

\* the source as attached to the definition, before any narrowing
OriginalSource == assets_def[1].metadata[META_KEY_SOURCE]

\* the keys the translator derives from the source's resources
DerivableKeys ==
    {get_asset_key(assets_def[1].metadata[META_KEY_SOURCE].resources[i]) :
        i \in DOMAIN assets_def}

SelectedKeys == Range(context.selected_asset_keys)

MappingResources == [i \in DOMAIN mapping |-> mapping[i][2]]

Names(resources) == {resources[i].name : i \in DOMAIN resources}

\* C1: on a subset run whose requested keys K are all derivable, the pairing
\* holds exactly the resources whose derived key is in K, once each, in the
\* source's order, whatever order K is enumerated in.
C1_SubsetPairingIsKeyedSelection ==
    (Paired /\ context.is_subset /\ SelectedKeys \subseteq DerivableKeys) =>
        LET InK(resource) == get_asset_key(resource) \in SelectedKeys
        IN  MappingResources = SelectSeq(OriginalSource.resources, InK)

\* C2: every pair (k, r) of the pairing, and every record yielded from it,
\* has k = get_asset_key(r).  Stated for runs whose selected keys are keys of
\* the definition, where it already fails.
C2_PairKeyIsDerivedKey ==
    (Paired /\ SelectedKeys \subseteq DerivableKeys) =>
        /\ \A i \in DOMAIN mapping : mapping[i][1] = get_asset_key(mapping[i][2])
        /\ \A i \in DOMAIN yielded :
               yielded[i].asset_key = get_asset_key(mapping[i][2])

\* C3: on a subset run none of whose requested keys is derivable from a
\* resource of the source, the pairing is empty, nothing is yielded and the
\* run raises nothing of its own.  Stated for a source that has resources
\* (without any, run ends in StopIteration at line 153); the configuration
\* error and the pipeline's own failure are not the scenario's exceptions.
C3_DisjointSubsetIsEmpty ==
    (Scheduled /\ context.is_subset /\ SelectedKeys # {}
        /\ SelectedKeys \cap DerivableKeys = {} /\ assets_def # <<>>) =>
        /\ mapping = <<>>
        /\ yielded = <<>>
        /\ error \in {"none", "Exception", "PipelineStepFailed"}

\* C4: the pipeline is executed on exactly the resources of the pairing: on a
\* subset run the source it is given retains exactly the names in the filtered
\* pairing, on a full run it is the unnarrowed source and all its resources are
\* in the pairing; a finished run has yielded one record per pair.
C4_ExecutedIsReported ==
    /\ \A c \in DOMAIN run_calls :
           /\ Names(run_calls[c].resources) = Names(MappingResources)
           /\ Len(run_calls[c].resources) = Len(mapping)
           /\ ~context.is_subset => run_calls[c] = OriginalSource
    /\ pc = "done" => Len(yielded) = Len(mapping)

C4_Witness ==
    /\ pc = "done"
    /\ context.is_subset
    /\ Len(OriginalSource.resources) = 2
    /\ Len(yielded) = 1

\* C5: on a full run over n resources the pairing has length n and holds every
\* resource once, and a finished run has yielded n records.
C5_FullRunCoversAll ==
    (Paired /\ ~context.is_subset) =>
        /\ Len(mapping) = Len(OriginalSource.resources)
        /\ MappingResources = OriginalSource.resources
        /\ pc = "done" => Len(yielded) = Len(OriginalSource.resources)

C5_Witness ==
    /\ pc = "done"
    /\ ~context.is_subset
    /\ Len(OriginalSource.resources) = 2
    /\ Len(yielded) = 2

\* a reference is missing from the node metadata the run reads
RefMissing ==
    /\ Scheduled
    /\ context.metadata_by_key_values # <<>>
    /\ \E i \in DOMAIN context.metadata_by_key_values :
           {META_KEY_SOURCE, META_KEY_PIPELINE}
               \ DOMAIN context.metadata_by_key_values[i] # {}

\* C7: with the source or the pipeline reference missing, run ends in the
\* configuration error before anything else: the pipeline is never run, the
\* source is never paired or narrowed, nothing is yielded.
C7_MissingRefsFailFirst ==
    RefMissing =>
        /\ pc \in {"start", "raised"}
        /\ pc = "raised" => error = "Exception"
        /\ run_calls = <<>>
        /\ mapping = <<>>
        /\ dlt_source \in {None, OriginalSource}
        /\ yielded = <<>>

C7_Witness ==
    /\ RefMissing
    /\ META_KEY_SOURCE \in DOMAIN context.metadata_by_key_values[1]
    /\ pc = "raised"
    /\ error = "Exception"

\* C8: records are yielded only after the single pipeline execution returned
\* its report; when that execution raises, its exception ends the run and
\* nothing is yielded.
C8_YieldOnlyAfterPipeline ==
    /\ Len(run_calls) <= 1
    /\ yielded # <<>> => (Len(run_calls) = 1 /\ load_info # None)
    /\ pc \in {"loaded", "done"} => (Len(run_calls) = 1 /\ load_info # None)
    /\ (run_calls # <<>> /\ dlt_pipeline.raises) =>
           /\ pc = "raised"
           /\ error = "PipelineStepFailed"
           /\ yielded = <<>>
           /\ load_info = None

C8_Witness ==
    /\ pc = "raised"
    /\ error = "PipelineStepFailed"
    /\ mapping # <<>>
    /\ yielded = <<>>

----------------------------------------------------------------------------
(* The translator on pairs of resources *)

KeySourceNames == {"a", "a_b", "x"}
KeyResourceNames == {"c", "b_c", "y"}

KeyResources ==
    {DltResource(sn, n, n) : sn \in KeySourceNames, n \in KeyResourceNames}

InitKey ==
    /\ pc = "key_input"
    /\ arg \in KeyResources \X KeyResources
    /\ result = None
    /\ assets_def = <<>>
    /\ context = NoContext
    /\ dlt_source = None
    /\ dlt_pipeline = None
    /\ mapping = <<>>
    /\ load_info = None
    /\ idx = 0
    /\ yielded = <<>>
    /\ error = "none"
    /\ run_calls = <<>>

\* the specs' key, as dlt_assets derives it, for both resources
translate_keys ==
    /\ pc = "key_input"
    /\ result' = <<get_asset_key(arg[1]), get_asset_key(arg[2])>>
    /\ pc' = "key_done"
    /\ UNCHANGED <<assets_def, context, dlt_source, dlt_pipeline, mapping,
                   load_info, idx, yielded, error, run_calls, arg>>

\* the specs' deps, as dlt_assets derives them, for both resources
translate_deps ==
    /\ pc = "key_input"
    /\ result' = <<get_deps_asset_keys(arg[1]), get_deps_asset_keys(arg[2])>>
    /\ pc' = "deps_done"
    /\ UNCHANGED <<assets_def, context, dlt_source, dlt_pipeline, mapping,
                   load_info, idx, yielded, error, run_calls, arg>>

NextKey == translate_keys \/ translate_deps

SpecKey == InitKey /\ [][NextKey]_vars

\* C6: resources whose (source_name, name) pairs differ get different keys.
C6_AssetKeyInjective ==
    pc = "key_done" =>
        (<<arg[1].source_name, arg[1].name>> # <<arg[2].source_name, arg[2].name>>
            => result[1] # result[2])

----------------------------------------------------------------------------
(* The metadata helpers on bounded reports *)

TableNames == {"orders", "customers"}

PyInt(v) == [t |-> "int", v |-> v]

\* what tells the jobs of a package apart: the table, or no table_name at all
JobTables == TableNames \cup {"absent"}

\* the job at position j of package p; job_id grows in package-then-job order
Job(p, j, table) ==
    LET base == [job_id |-> PyInt(p * (MaxJobs + 2) + j),
                 created_at |-> DateTime("2024-01-01T00:00:30+00:00"),
                 tz |-> PyList(<<Timezone("UTC"), PyStr("x")>>)]
    IN  PyDict(IF table = "absent" THEN base
               ELSE base @@ ("table_name" :> PyStr(table)))

Package(p, tables) ==
    PyDict([load_id |-> PyInt(p),
            completed_at |-> DateTime("2024-01-01T00:01:00+00:00"),
            jobs |-> PyList([j \in DOMAIN tables |-> Job(p, j, tables[j])])])

SeqsUpTo(S, n) == UNION {[1..k -> S] : k \in 0..n}

\* reports: every choice of tables for at most MaxPackages packages of at
\* most MaxJobs jobs, with or without the load_packages entry
LoadInfos ==
    {[t |-> "LoadInfo",
      d |-> [first_run |-> PyBool(TRUE),
             started_at |-> DateTime("2024-01-01T00:00:00+00:00"),
             dataset_name |-> PyStr("dataset"),
             pipeline |-> PyDict([pipeline_name |-> PyStr("p"),
                                  tz |-> Timezone("UTC")]),
             loads_ids |-> PyList(<<PyStr("1")>>),
             load_packages |-> PyList([p \in DOMAIN tss |-> Package(p, tss[p])])]] :
        tss \in SeqsUpTo(SeqsUpTo(JobTables, MaxJobs), MaxPackages)}
    \cup
    {[t |-> "LoadInfo",
      d |-> [finished_at |-> Timezone("UTC"),
             stamps |-> PyList(<<DateTime("2024-01-01T00:00:00+00:00"),
                                 PyList(<<Timezone("UTC")>>)>>)]]}
    \cup
    \* a report that holds no pendulum value
    {[t |-> "LoadInfo",
      d |-> [first_run |-> PyBool(FALSE),
             dataset_name |-> PyStr("dataset"),
             load_packages |-> PyList(<<
                 PyDict([load_id |-> PyInt(1),
                         jobs |-> PyList(<<
                             PyDict([table_name |-> PyStr("orders"),
                                     job_id |-> PyInt(1)])>>)])>>)]]}

InitMeta ==
    /\ pc = "meta_input"
    /\ arg \in [resource : {DltResource(SourceName, n, n) : n \in TableNames},
                load_info : LoadInfos]
    /\ result = None
    /\ assets_def = <<>>
    /\ context = NoContext
    /\ dlt_source = None
    /\ dlt_pipeline = None
    /\ mapping = <<>>
    /\ load_info = None
    /\ idx = 0
    /\ yielded = <<>>
    /\ error = "none"
    /\ run_calls = <<>>

cast_metadata ==
    /\ pc = "meta_input"
    /\ result' = _cast_load_info_metadata(asdict(arg.load_info))
    /\ pc' = "cast_done"
    /\ UNCHANGED <<assets_def, context, dlt_source, dlt_pipeline, mapping,
                   load_info, idx, yielded, error, run_calls, arg>>

extract_metadata ==
    /\ pc = "meta_input"
    /\ result' = extract_resource_metadata(arg.resource, arg.load_info)
    /\ pc' = "extract_done"
    /\ UNCHANGED <<assets_def, context, dlt_source, dlt_pipeline, mapping,
                   load_info, idx, yielded, error, run_calls, arg>>

\* the cast applied to its own output: the first result becomes the input
recast_metadata ==
    /\ pc = "cast_done"
    /\ arg' = [arg EXCEPT !.load_info = [t |-> "LoadInfo", d |-> result]]
    /\ result' = _cast_load_info_metadata(result)
    /\ pc' = "recast_done"
    /\ UNCHANGED <<assets_def, context, dlt_source, dlt_pipeline, mapping,
                   load_info, idx, yielded, error, run_calls>>

NextMeta == cast_metadata \/ extract_metadata \/ recast_metadata

SpecMeta == InitMeta /\ [][NextMeta]_vars

\* positions <<p, j>> of the report's jobs whose table_name is the resource's
MatchingPositions ==
    LET d == arg.load_info.d
        packages == IF "load_packages" \in DOMAIN d THEN d["load_packages"].s
                    ELSE <<>>
    IN  {pos \in UNION {{<<p, j>> : j \in DOMAIN packages[p].m["jobs"].s} :
                           p \in DOMAIN packages} :
            LET job == packages[pos[1]].m["jobs"].s[pos[2]].m
            IN  /\ "table_name" \in DOMAIN job
                /\ job["table_name"].v = arg.resource.table_name}

JobIdAt(pos) ==
    arg.load_info.d["load_packages"].s[pos[1]].m["jobs"].s[pos[2]].m["job_id"]

\* C9: the jobs entry is exactly the report's jobs for the resource's table,
\* in package order then job order, none of another table and none missing;
\* every other key is an allow-listed top-level field of the report.
C9_JobsAreTheTablesJobs ==
    pc = "extract_done" =>
        LET jobs == result["jobs"].s
        IN  /\ \A i \in DOMAIN jobs :
                   /\ "table_name" \in DOMAIN jobs[i].m
                   /\ jobs[i].m["table_name"] = PyStr(arg.resource.table_name)
                   /\ \E pos \in MatchingPositions :
                          jobs[i].m["job_id"] = JobIdAt(pos)
            /\ \A pos \in MatchingPositions :
                   \E i \in DOMAIN jobs : jobs[i].m["job_id"] = JobIdAt(pos)
            /\ Len(jobs) = Cardinality(MatchingPositions)
            /\ \A i, k \in DOMAIN jobs :
                   i < k => jobs[i].m["job_id"].v < jobs[k].m["job_id"].v
            /\ DOMAIN result \ {"jobs"} \subseteq
                   dlt_base_metadata_types \cap DOMAIN arg.load_info.d

C9_Witness ==
    /\ pc = "extract_done"
    /\ Len(result["jobs"].s) = 2
    /\ Cardinality(MatchingPositions) = 2
    /\ LET packages == arg.load_info.d["load_packages"].s
       IN  \E p \in DOMAIN packages :
               \E j \in DOMAIN packages[p].m["jobs"].s :
                   /\ <<p, j>> \notin MatchingPositions
                   /\ \E a, b \in MatchingPositions :
                          /\ JobIdAt(a).v < JobIdAt(<<p, j>>).v
                          /\ JobIdAt(<<p, j>>).v < JobIdAt(b).v

RECURSIVE HasRich(_)
\* a DateTime or Timezone occurs somewhere in the value
HasRich(v) ==
    IF v.t = "dict" THEN \E k \in DOMAIN v.m : HasRich(v.m[k])
    ELSE IF v.t = "list" THEN \E i \in DOMAIN v.s : HasRich(v.s[i])
    ELSE v.t \in {"DateTime", "Timezone"}

RECURSIVE Rendered(_, _)
\* b is a with every rich value replaced by its text and the shape kept
Rendered(a, b) ==
    IF a.t = "dict"
    THEN /\ b.t = "dict"
         /\ DOMAIN b.m = DOMAIN a.m
         /\ \A k \in DOMAIN a.m : Rendered(a.m[k], b.m[k])
    ELSE IF a.t = "list"
    THEN /\ b.t = "list"
         /\ Len(b.s) = Len(a.s)
         /\ \A i \in DOMAIN a.s : Rendered(a.s[i], b.s[i])
    ELSE IF a.t = "DateTime" THEN b = [t |-> "str", v |-> a.iso]
    ELSE IF a.t = "Timezone" THEN b = [t |-> "str", v |-> a.name]
    ELSE b = a

\* C10: the cast result holds no DateTime or Timezone at any depth; each one
\* of the input is replaced by its text, and every mapping keeps its keys and
\* every list its length and order.
C10_NoRichValueRemains ==
    pc = "cast_done" =>
        /\ DOMAIN result = DOMAIN arg.load_info.d
        /\ \A k \in DOMAIN result :
               /\ ~HasRich(result[k])
               /\ Rendered(arg.load_info.d[k], result[k])

C10_Witness ==
    /\ pc = "cast_done"
    /\ "load_packages" \in DOMAIN arg.load_info.d
    /\ Len(arg.load_info.d["load_packages"].s) = 2
    /\ HasRich(arg.load_info.d["load_packages"])
    /\ ~HasRich(result["load_packages"])
    /\ result["load_packages"].s[2].m["jobs"].s # <<>>
    /\ result["load_packages"].s[2].m["jobs"].s[1].m["tz"].s[1] = PyStr("UTC")

\* C11: the cast of a cast result is that result again, and the cast of a
\* mapping that holds no DateTime or Timezone is the mapping itself.
C11_CastIdempotentAndIdentityOnPlain ==
    /\ pc = "recast_done" => result = arg.load_info.d
    /\ (pc \in {"cast_done", "recast_done"}
            /\ \A k \in DOMAIN arg.load_info.d : ~HasRich(arg.load_info.d[k]))
           => result = arg.load_info.d

C11_Witness ==
    /\ pc = "recast_done"
    /\ result = arg.load_info.d
    /\ {"started_at", "load_packages"} \subseteq DOMAIN result
    /\ result["started_at"] = PyStr("2024-01-01T00:00:00+00:00")
    /\ Len(result["load_packages"].s) = 2
    /\ result["load_packages"].s[1].m["jobs"].s # <<>>
    /\ result["load_packages"].s[1].m["jobs"].s[1].m["job_id"].t = "int"

====
